---- MODULE Spec2Model ----
(***************************************************************************)
(* Model of scripts/linkedin_devlog.py: one run of main().                 *)
(*                                                                         *)
(* Python strings are modelled as sequences of one-character strings, so   *)
(* that strip(), lower(), startswith(), endswith(), basename(), the        *)
(* SECRET_PATTERNS regular expression, splitlines() and the f-string       *)
(* formatting are computed character by character.                         *)
(***************************************************************************)
EXTENDS Integers, Sequences, FiniteSets

(***************************************************************************)
(* Bounds of the model.                                                    *)
(***************************************************************************)
\* longest list of commit subjects git reports for a revision range
MaxSubjects == 2
\* longest list of changed files git reports
MaxFiles == 2
\* longest subject list handed to build_post_text in SpecBuild
MaxBuildSubjects == 4

(***************************************************************************)
(* Characters and string helpers (Python str methods).                     *)
(***************************************************************************)
UpperSeq == <<"A","B","C","D","E","F","G","H","I","J","K","L","M",
              "N","O","P","Q","R","S","T","U","V","W","X","Y","Z">>
LowerSeq == <<"a","b","c","d","e","f","g","h","i","j","k","l","m",
              "n","o","p","q","r","s","t","u","v","w","x","y","z">>
DigitSet == {"0","1","2","3","4","5","6","7","8","9"}
UpperSet == {UpperSeq[i] : i \in DOMAIN UpperSeq}
LowerSet == {LowerSeq[i] : i \in DOMAIN LowerSeq}
\* [0-9a-f]
HexLowerSet == DigitSet \cup {"a","b","c","d","e","f"}
\* [A-Za-z0-9]; under re.IGNORECASE the class [0-9A-Z] is the same set
AlnumSet == DigitSet \cup UpperSet \cup LowerSet
\* characters str.strip() removes
SpaceSet == {" ", "\t", "\n", "\r"}
\* the line boundary used by "\n".join and f-strings
NL == "\n"

Rep(c, n) == [i \in 1..n |-> c]

ToSet(s) == {s[i] : i \in DOMAIN s}

LowerMap == [c \in UpperSet |-> LowerSeq[CHOOSE i \in DOMAIN UpperSeq : UpperSeq[i] = c]]

lower_char(c) == IF c \in UpperSet THEN LowerMap[c] ELSE c

\* str.lower()
lower(s) == [i \in 1..Len(s) |-> lower_char(s[i])]

\* lit occurs in s at position i
has_at(s, i, lit) ==
    /\ i + Len(lit) - 1 <= Len(s)
    /\ \A k \in DOMAIN lit : s[i + k - 1] = lit[k]

\* str.startswith(p)
startswith(s, p) == has_at(s, 1, p)

\* str.endswith(p)
endswith(s, p) == Len(p) <= Len(s) /\ has_at(s, Len(s) - Len(p) + 1, p)

RECURSIVE first_kept(_, _)
\* index of the first character from i on that strip() keeps
first_kept(s, i) ==
    IF i > Len(s) THEN i
    ELSE IF s[i] \in SpaceSet THEN first_kept(s, i + 1) ELSE i

RECURSIVE last_kept(_, _)
\* index of the last character up to i that strip() keeps
last_kept(s, i) ==
    IF i < 1 THEN i
    ELSE IF s[i] \in SpaceSet THEN last_kept(s, i - 1) ELSE i

\* str.strip()
strip(s) == SubSeq(s, first_kept(s, 1), last_kept(s, Len(s)))

RECURSIVE last_index(_, _, _)
\* index of the last c in s up to i, or 0
last_index(s, c, i) ==
    IF i < 1 THEN 0
    ELSE IF s[i] = c THEN i ELSE last_index(s, c, i - 1)

RECURSIVE first_index(_, _, _)
\* index of the first c in s from i on, or 0
first_index(s, c, i) ==
    IF i > Len(s) THEN 0
    ELSE IF s[i] = c THEN i ELSE first_index(s, c, i + 1)

\* os.path.basename(f): what follows the last "/"
basename(f) == SubSeq(f, last_index(f, "/", Len(f)) + 1, Len(f))

RECURSIVE join(_, _)
\* sep.join(parts)
join(sep, parts) ==
    IF parts = <<>> THEN <<>>
    ELSE IF Len(parts) = 1 THEN parts[1]
    ELSE parts[1] \o sep \o join(sep, Tail(parts))

RECURSIVE splitlines(_)
\* str.splitlines() for "\n" line boundaries
splitlines(s) ==
    IF s = <<>> THEN <<>>
    ELSE LET k == first_index(s, NL, 1)
         IN  IF k = 0 THEN <<s>>
             ELSE <<SubSeq(s, 1, k - 1)>> \o splitlines(SubSeq(s, k + 1, Len(s)))

(***************************************************************************)
(* String literals of the program.                                         *)
(***************************************************************************)
S_akia == <<"a","k","i","a">>
S_ghp == <<"g","h","p","_">>
S_pem_plain == <<"b","e","g","i","n"," ","p","r","i","v","a","t","e"," ","k","e","y">>
S_pem_rsa == <<"b","e","g","i","n"," ","r","s","a"," ","p","r","i","v","a","t","e"," ","k","e","y">>
S_pem_ec == <<"b","e","g","i","n"," ","e","c"," ","p","r","i","v","a","t","e"," ","k","e","y">>
S_merge == <<"m","e","r","g","e">>
S_dot_md == <<".","m","d">>
S_docs_slash == <<"d","o","c","s","/">>
S_license == <<"l","i","c","e","n","s","e">>
S_readme == <<"r","e","a","d","m","e">>
S_ugc == <<"u","g","c">>
S_posts == <<"p","o","s","t","s">>
S_auto == <<"a","u","t","o">>
S_header == <<"D","e","v"," ","u","p","d","a","t","e"," ","f","r","o","m"," ">>
\* the bullet prefix of line 130; "*" stands for the character U+2022
S_bullet == <<"*"," ">>
S_updates == <<"U","p","d","a","t","e","s">>
S_github == <<"h","t","t","p","s",":","/","/","g","i","t","h","u","b",".","c","o","m","/">>
S_compare == <<"/","c","o","m","p","a","r","e","/">>
S_commit == <<"/","c","o","m","m","i","t","/">>
S_dots == <<".",".",".">>

(***************************************************************************)
(* Program constants.                                                      *)
(***************************************************************************)
\* AKIA[0-9A-Z]{16}
AkiaTailLen == 16
\* ghp_[A-Za-z0-9]{30,}
GhpMinTail == 30
\* [0-9a-f]{40}
ShaLen == 40
\* [:3] in build_post_text
TopSubjects == 3

\* DEP_ONLY_FILES
DEP_ONLY_FILES ==
    { <<"p","a","c","k","a","g","e","-","l","o","c","k",".","j","s","o","n">>,
      <<"y","a","r","n",".","l","o","c","k">>,
      <<"p","n","p","m","-","l","o","c","k",".","y","a","m","l">>,
      <<"p","o","e","t","r","y",".","l","o","c","k">>,
      <<"P","i","p","f","i","l","e",".","l","o","c","k">>,
      <<"r","e","q","u","i","r","e","m","e","n","t","s",".","t","x","t">> }

(***************************************************************************)
(* Pure functions of the program.                                          *)
(***************************************************************************)
\* One alternative of SECRET_PATTERNS matching at position i of text;
\* low is lower(text) (re.IGNORECASE).
secret_match_at(text, low, i) ==
    \/ /\ has_at(low, i, S_akia)
       /\ i + 3 + AkiaTailLen <= Len(text)
       /\ \A j \in (i + 4)..(i + 3 + AkiaTailLen) : text[j] \in AlnumSet
    \/ /\ has_at(low, i, S_ghp)
       /\ i + 3 + GhpMinTail <= Len(text)
       /\ \A j \in (i + 4)..(i + 3 + GhpMinTail) : text[j] \in AlnumSet
    \/ has_at(low, i, S_pem_plain)
    \/ has_at(low, i, S_pem_rsa)
    \/ has_at(low, i, S_pem_ec)

\* SECRET_PATTERNS.search(text) is not None
SECRET_PATTERNS_search(text) ==
    LET low == lower(text)
    IN  \E i \in DOMAIN text : secret_match_at(text, low, i)

\* is_all_zeros_sha that recognises no sentinel
is_all_zeros_sha_never(sha) == FALSE

\* is_all_zeros_sha
is_all_zeros_sha(sha) == sha # <<>> /\ ToSet(sha) = {"0"}

\* re.fullmatch(r"[0-9a-f]{40}", sha)
sha_fullmatch(sha) == Len(sha) = ShaLen /\ ToSet(sha) \subseteq HexLowerSet

\* is_doc comparing the path as written, not lower-cased
is_doc_case_sensitive(f) ==
    \/ endswith(f, S_dot_md)
    \/ startswith(f, S_docs_slash)
    \/ f \in {S_license, S_license \o S_dot_md, S_readme, S_readme \o S_dot_md}

is_doc(f) ==
    LET lf == lower(f)
    IN  \/ endswith(lf, S_dot_md)
        \/ startswith(lf, S_docs_slash)
        \/ lf \in {S_license, S_license \o S_dot_md, S_readme, S_readme \o S_dot_md}

\* looks_doc_only
looks_doc_only(files) ==
    IF files = <<>> THEN TRUE
    ELSE \A i \in DOMAIN files : is_doc(files[i])

\* looks_dependency_only
looks_dependency_only(files) ==
    IF files = <<>> THEN FALSE
    ELSE {basename(files[i]) : i \in DOMAIN files} \subseteq DEP_ONLY_FILES

\* looks_merge_only comparing the subjects as written, not lower-cased
looks_merge_only_case_sensitive(subjects) ==
    IF subjects = <<>> THEN FALSE
    ELSE \A i \in DOMAIN subjects : startswith(subjects[i], S_merge)

\* looks_merge_only
looks_merge_only(subjects) ==
    IF subjects = <<>> THEN FALSE
    ELSE \A i \in DOMAIN subjects : startswith(lower(subjects[i]), S_merge)

RECURSIVE nonempty_stripped(_)
\* [s.strip() for s in subjects if s.strip()]
nonempty_stripped(subjects) ==
    IF subjects = <<>> THEN <<>>
    ELSE LET t == strip(Head(subjects))
         IN  (IF t # <<>> THEN <<t>> ELSE <<>>) \o nonempty_stripped(Tail(subjects))

\* build_post_text taking the first three subjects before dropping the empty ones
build_post_text_slice_first(repo, subjects, shortstat, link_url) ==
    LET top == nonempty_stripped(
                   SubSeq(subjects, 1,
                          IF Len(subjects) < TopSubjects THEN Len(subjects) ELSE TopSubjects))
        bullets == IF top # <<>>
                   THEN join(<<NL>>, [i \in 1..Len(top) |-> S_bullet \o top[i]])
                   ELSE S_bullet \o S_updates
        stat_line == IF shortstat # <<>> THEN <<NL, NL>> \o shortstat ELSE <<>>
    IN  S_header \o repo \o <<":", NL, NL>>
        \o bullets
        \o stat_line \o <<NL, NL>>
        \o link_url

\* build_post_text
build_post_text(repo, subjects, shortstat, link_url) ==
    LET kept == nonempty_stripped(subjects)
        top == SubSeq(kept, 1, IF Len(kept) < TopSubjects THEN Len(kept) ELSE TopSubjects)
        bullets == IF top # <<>>
                   THEN join(<<NL>>, [i \in 1..Len(top) |-> S_bullet \o top[i]])
                   ELSE S_bullet \o S_updates
        stat_line == IF shortstat # <<>> THEN <<NL, NL>> \o shortstat ELSE <<>>
    IN  S_header \o repo \o <<":", NL, NL>>
        \o bullets
        \o stat_line \o <<NL, NL>>
        \o link_url

\* the link built in main: compare when possible, otherwise commit link
build_link(repo, before, after) ==
    IF before # <<>> /\ after # <<>> /\ ~is_all_zeros_sha(before)
    THEN S_github \o repo \o S_compare \o before \o S_dots \o after
    ELSE IF after # <<>>
    THEN S_github \o repo \o S_commit \o after
    ELSE S_github \o repo

\* the skip rules with the doc-only rule consulted before the secret rule
postability_filter_doc_first(subjects, files) ==
    IF looks_doc_only(files) THEN "doc_only"
    ELSE IF SECRET_PATTERNS_search(join(<<NL>>, subjects)) THEN "secret"
    ELSE IF looks_merge_only(subjects) THEN "merge_only"
    ELSE IF looks_dependency_only(files) THEN "dependency_only"
    ELSE IF files = <<>> THEN "no_files"
    ELSE "none"

\* the ordered chain of skip rules in main: the reason of the skip, or "none"
postability_filter(subjects, files) ==
    IF SECRET_PATTERNS_search(join(<<NL>>, subjects)) THEN "secret"
    ELSE IF looks_doc_only(files) THEN "doc_only"
    ELSE IF looks_merge_only(subjects) THEN "merge_only"
    ELSE IF looks_dependency_only(files) THEN "dependency_only"
    ELSE IF files = <<>> THEN "no_files"
    ELSE "none"

(***************************************************************************)
(* The environment of a run: process environment variables, the git        *)
(* repository at --repo-path, and the answers of the HTTP services.        *)
(***************************************************************************)
\* the all-zero "before" of a branch creation
ShaZeros == Rep("0", ShaLen)
\* two commits present in the repository
ShaA == Rep("a", ShaLen)
ShaB == Rep("b", ShaLen)
\* a well-formed SHA whose commit is not in the (shallow) clone
ShaMissing == Rep("c", ShaLen)
\* an abbreviated SHA: not 40 hex digits
ShaShort == <<"b","b","b","b","b","b","b">>

PresentCommits == {ShaA, ShaB}

\* git cat-file -e sha^{commit} succeeds
git_has_commit(sha) == sha \in PresentCommits

BeforeEnv == {<<>>, ShaZeros, ShaA, ShaMissing}
AfterEnv == {<<>>, ShaB, ShaShort}

AuthorEnv == {<<>>, <<"u","r","n">>}
TokenEnv == {<<" ">>, <<"t","o","k">>}
ModeEnv == {<<>>, S_auto, S_posts, <<"U","G","C"," ">>}
DryRunEnv == {<<>>, <<"1">>}
ApiKeyEnv == {<<>>, <<"s","k">>}
RepoEnv == {<<"o","/","r">>}
\* basename of --repo-path, used when GITHUB_REPO is empty
RepoPathBase == <<"w">>

SubjMerge == <<"M","E","R","G","E"," ","a">>
SubjFix == <<"F","i","x">>
SubjSecret == <<"x"," ","G","H","P","_">> \o Rep("a", GhpMinTail)
SubjEmpty == <<>>
\* commit subjects (git log --format=%s) of the commits in the repository
SubjectPool == {SubjMerge, SubjFix, SubjSecret, SubjEmpty}

FileReadme == <<"R","E","A","D","M","E",".","M","D">>
FileDocs == <<"D","o","c","s","/","a">>
FileLock == <<"a","/","y","a","r","n",".","l","o","c","k">>
FileCode == <<"a",".","p","y">>
\* paths git reports as changed
FilePool == {FileReadme, FileDocs, FileLock, FileCode}

SeqsUpTo(S, n) == UNION {[1..k -> S] : k \in 0..n}

\* what git prints for a list of lines
git_output(lines) == join(<<NL>>, lines) \o (IF lines = <<>> THEN <<>> ELSE <<NL>>)

\* sh(): check_output(...).strip()
sh(out) == strip(out)

\* what git diff/show --shortstat prints for a change of these files
git_shortstat_output(fs) ==
    IF fs = <<>> THEN <<>>
    ELSE <<" ","1"," ","f","i","l","e"," ","c","h","a","n","g","e","d",NL>>

\* answers of an HTTP service: a 2xx status, a non-2xx status (HTTPError),
\* no answer at all (URLError)
HttpAnswers == {"ok", "http_error", "url_error"}

\* the output_text of a 2xx answer of the text-generation service
\* (<<>>: the answer holds no output_text item)
AiTexts == {<<>>, <<" ">>, <<"A","I">>}

\* default of LINKEDIN_POST_MODE
DEFAULT_POST_MODE == S_ugc

VARIABLES
    pc,          \* position of main(): start, userinfo, collect, filter,
                 \* summarize, publish, publish_fallback, done
    env,         \* the process environment read at the top of main
    api_key,     \* OPENAI_API_KEY as summarize_with_openai read it
    mode,        \* main's mode
    dry_run,     \* main's dry_run
    path,        \* branch collect_push_summary took: range, commit, head
    subjects,    \* collect_push_summary's result
    files,
    shortstat,
    skip,        \* which "Skip:" message main printed, or "none"
    link_url,
    fallback,
    ai,          \* what summarize_with_openai returned
    text,
    requests,    \* HTTP requests issued so far, with the answer each got
    raised,      \* the exception that left main uncaught, or "none"
    exit_code    \* process exit status, -1 while running

vars == <<pc, env, api_key, mode, dry_run, path, subjects, files, shortstat, skip,
          link_url, fallback, ai, text, requests, raised, exit_code>>

Init ==
    /\ pc = "start"
    /\ env \in [ author : AuthorEnv, token : TokenEnv, post_mode : ModeEnv,
                 dry_run : DryRunEnv, before : BeforeEnv, after : AfterEnv,
                 repo : RepoEnv ]
    /\ api_key = <<>>
    /\ mode = <<>>
    /\ dry_run = FALSE
    /\ path = "none"
    /\ subjects = <<>>
    /\ files = <<>>
    /\ shortstat = <<>>
    /\ skip = "none"
    /\ link_url = <<>>
    /\ fallback = <<>>
    /\ ai = <<>>
    /\ text = <<>>
    /\ requests = <<>>
    /\ raised = "none"
    /\ exit_code = -1

\* the values main reads from the environment (lines 267-279)
author == strip(env.author)
token == strip(env.token)
repo == IF strip(env.repo) # <<>> THEN strip(env.repo) ELSE RepoPathBase
before == strip(env.before)
after == strip(env.after)

\* mode read from LINKEDIN_POST_MODE
read_mode(v) == lower(strip(IF v # <<>> THEN v ELSE DEFAULT_POST_MODE))

\* return n / an uncaught exception ends the process
Exit(n, exc) ==
    /\ pc' = "done"
    /\ exit_code' = n
    /\ raised' = exc

\* main, lines 267-285: required configuration, then the optional settings
CheckConfig ==
    /\ pc = "start"
    /\ IF author = <<>> \/ token = <<>>
       THEN /\ Exit(1, "none")
            /\ UNCHANGED <<mode, dry_run>>
       ELSE /\ mode' = read_mode(env.post_mode)
            /\ dry_run' = (strip(env.dry_run) \in {<<"1">>, <<"t","r","u","e">>, <<"y","e","s">>})
            /\ pc' = "userinfo"
            /\ UNCHANGED <<exit_code, raised>>
    /\ UNCHANGED <<env, api_key, path, subjects, files, shortstat, skip, link_url,
                   fallback, ai, text, requests>>

\* the exception request_json lets through for an answer, or "none"
request_raises(answer) ==
    CASE answer = "http_error" -> "HTTPError"
      [] answer = "url_error" -> "URLError"
      [] OTHER -> "none"

\* main, lines 288-294: GET /v2/userinfo
TokenSanityCheck ==
    /\ pc = "userinfo"
    /\ \E answer \in HttpAnswers :
        /\ requests' = Append(requests, [url |-> "userinfo", answer |-> answer])
        /\ IF request_raises(answer) # "none"
           THEN Exit(1, request_raises(answer))
           ELSE pc' = "collect" /\ UNCHANGED <<exit_code, raised>>
    /\ UNCHANGED <<env, api_key, mode, dry_run, path, subjects, files, shortstat, skip,
                   link_url, fallback, ai, text>>

after_ok == after # <<>> /\ sha_fullmatch(after) /\ git_has_commit(after)

before_ok ==
    /\ before # <<>>
    /\ sha_fullmatch(before)
    /\ ~is_all_zeros_sha(before)
    /\ git_has_commit(before)

\* the branch collect_push_summary takes
summary_path ==
    IF after_ok /\ before_ok THEN "range"
    ELSE IF after_ok THEN "commit"
    ELSE "head"

\* collect_push_summary in a repository where git answers: log_subjects and
\* diff_files are what git has for the revisions asked about
collect_push_summary(log_subjects, diff_files) ==
    IF summary_path = "range"
    THEN [ subjects |-> splitlines(sh(git_output(log_subjects))),
           files |-> splitlines(sh(git_output(diff_files))),
           shortstat |-> sh(git_shortstat_output(diff_files)) ]
    ELSE LET fs == splitlines(sh(git_output(diff_files)))
         IN  [ subjects |-> <<sh(git_output(log_subjects))>>,
               files |-> fs,
               shortstat |-> IF fs # <<>>
                             THEN LET ls == splitlines(sh(git_shortstat_output(diff_files)))
                                  IN  ls[Len(ls)]
                             ELSE <<>> ]

\* main, line 296, with git answering
CollectPushSummary ==
    /\ pc = "collect"
    /\ \E log_subjects \in SeqsUpTo(SubjectPool, MaxSubjects),
          diff_files \in SeqsUpTo(FilePool, MaxFiles) :
        \* git log -1 prints the subject of exactly one commit
        /\ summary_path # "range" => Len(log_subjects) = 1
        /\ LET r == collect_push_summary(log_subjects, diff_files)
           IN  /\ subjects' = r.subjects
               /\ files' = r.files
               /\ shortstat' = r.shortstat
    /\ path' = summary_path
    /\ pc' = "filter"
    /\ UNCHANGED <<env, api_key, mode, dry_run, skip, link_url, fallback, ai, text,
                   requests, raised, exit_code>>

\* main, line 296, when --repo-path is no git checkout: sh() raises
GitFailure ==
    /\ pc = "collect"
    /\ Exit(1, "CalledProcessError")
    /\ UNCHANGED <<env, api_key, mode, dry_run, path, subjects, files, shortstat, skip,
                   link_url, fallback, ai, text, requests>>

\* main, lines 298-326: the skip rules, then the link and the fallback text
PostabilityFilter ==
    /\ pc = "filter"
    /\ skip' = postability_filter(subjects, files)
    /\ IF skip' # "none"
       THEN /\ Exit(0, "none")
            /\ UNCHANGED <<link_url, fallback>>
       ELSE /\ link_url' = build_link(repo, before, after)
            /\ fallback' = build_post_text(repo, subjects, shortstat, link_url')
            /\ pc' = "summarize"
            /\ UNCHANGED <<exit_code, raised>>
    /\ UNCHANGED <<env, api_key, mode, dry_run, path, subjects, files, shortstat, ai, text,
                   requests>>

\* summarize_with_openai: no request without OPENAI_API_KEY; urlopen's
\* exceptions are not caught; otherwise the stripped output_text or ""
summarize_with_openai(key_env, answer, ai_text) ==
    IF strip(key_env) = <<>>
    THEN [requested |-> FALSE, raises |-> "none", result |-> <<>>]
    ELSE IF request_raises(answer) # "none"
    THEN [requested |-> TRUE, raises |-> request_raises(answer), result |-> <<>>]
    ELSE [requested |-> TRUE, raises |-> "none", result |-> strip(ai_text)]

\* main, lines 335-341: the optional rewrite, then DRY_RUN
Summarize ==
    /\ pc = "summarize"
    /\ \E key_env \in ApiKeyEnv, answer \in HttpAnswers, ai_text \in AiTexts :
        LET r == summarize_with_openai(key_env, answer, ai_text)
        IN  \* unused inputs are fixed, so that each run is listed once
            /\ api_key' = strip(key_env)
            /\ ~r.requested => answer = "ok"
            /\ (~r.requested \/ r.raises # "none") => ai_text = <<>>
            /\ requests' = IF r.requested
                           THEN Append(requests, [url |-> "openai", answer |-> answer])
                           ELSE requests
            /\ IF r.raises # "none"
               THEN /\ Exit(1, r.raises)
                    /\ UNCHANGED <<ai, text>>
               ELSE /\ ai' = r.result
                    /\ text' = IF ai' # <<>> THEN ai' ELSE fallback
                    /\ IF dry_run
                       THEN Exit(0, "none")
                       ELSE pc' = "publish" /\ UNCHANGED <<exit_code, raised>>
    /\ UNCHANGED <<env, mode, dry_run, path, subjects, files, shortstat, skip,
                   link_url, fallback>>

\* the endpoint main posts to first, by mode (lines 345-352)
first_endpoint(m) == IF m = S_ugc THEN "ugcPosts" ELSE "rest_posts"

\* no fallback in any mode
falls_back_never(m, answer) == FALSE

\* fallback in every mode
falls_back_always(m, answer) == answer = "http_error"

\* lines 349-355: whether an HTTPError of the first request is caught by the
\* inner try and answered with a post to /v2/ugcPosts
falls_back(m, answer) ==
    m # S_posts /\ m # S_ugc /\ answer = "http_error"

\* how main ends after the last publish request got this answer
\* (lines 356-360): [exit code, uncaught exception]
publish_exit(answer) ==
    CASE answer = "ok" -> <<0, "none">>
      [] answer = "http_error" -> <<1, "none">>
      [] OTHER -> <<1, request_raises(answer)>>

\* main, lines 344-352: the first publish request
Publish ==
    /\ pc = "publish"
    /\ \E answer \in HttpAnswers :
        /\ requests' = Append(requests, [url |-> first_endpoint(mode), answer |-> answer])
        /\ IF falls_back(mode, answer)
           THEN pc' = "publish_fallback" /\ UNCHANGED <<exit_code, raised>>
           ELSE Exit(publish_exit(answer)[1], publish_exit(answer)[2])
    /\ UNCHANGED <<env, api_key, mode, dry_run, path, subjects, files, shortstat, skip,
                   link_url, fallback, ai, text>>

\* main, lines 353-355: auto mode's second request, to /v2/ugcPosts
PublishFallback ==
    /\ pc = "publish_fallback"
    /\ \E answer \in HttpAnswers :
        /\ requests' = Append(requests, [url |-> "ugcPosts", answer |-> answer])
        /\ Exit(publish_exit(answer)[1], publish_exit(answer)[2])
    /\ UNCHANGED <<env, api_key, mode, dry_run, path, subjects, files, shortstat, skip,
                   link_url, fallback, ai, text>>

Next ==
    \/ CheckConfig
    \/ TokenSanityCheck
    \/ CollectPushSummary
    \/ GitFailure
    \/ PostabilityFilter
    \/ Summarize
    \/ Publish
    \/ PublishFallback

Spec == Init /\ [][Next]_vars

(***************************************************************************)
(* build_post_text on its own: the arguments are drawn from bounded sets   *)
(* and the function is applied once.                                       *)
(***************************************************************************)
BuildSubjectPool == {<<" ","a">>, <<"b"," ","c"," ">>, <<>>, <<" ">>}
BuildStatPool == {<<>>, <<"1"," ","f">>}
BuildLinkPool == {<<"h",":","/","/","x">>}

InitBuild ==
    /\ pc = "build"
    /\ env \in [ author : {<<>>}, token : {<<>>}, post_mode : {<<>>},
                 dry_run : {<<>>}, before : {<<>>}, after : {<<>>},
                 repo : RepoEnv ]
    /\ api_key = <<>>
    /\ mode = <<>>
    /\ dry_run = FALSE
    /\ path = "none"
    /\ subjects \in SeqsUpTo(BuildSubjectPool, MaxBuildSubjects)
    /\ files = <<>>
    /\ shortstat \in BuildStatPool
    /\ skip = "none"
    /\ link_url \in BuildLinkPool
    /\ fallback = <<>>
    /\ ai = <<>>
    /\ text = <<>>
    /\ requests = <<>>
    /\ raised = "none"
    /\ exit_code = -1

\* fallback = build_post_text(repo, subjects, shortstat, link_url)
Build ==
    /\ pc = "build"
    /\ fallback' = build_post_text(repo, subjects, shortstat, link_url)
    /\ pc' = "built"
    /\ UNCHANGED <<env, api_key, mode, dry_run, path, subjects, files, shortstat, skip,
                   link_url, ai, text, requests, raised, exit_code>>

NextBuild == Build

SpecBuild == InitBuild /\ [][NextBuild]_vars

(***************************************************************************)
(* Vocabulary of the properties.                                           *)
(***************************************************************************)
\* the skip rules have been consulted for the collected push summary
FilterDone == path # "none" /\ pc # "filter"

IsPublishRequest(r) == r.url \in {"rest_posts", "ugcPosts"}

\* the publish requests issued so far, in order
PublishRequests == SelectSeq(requests, IsPublishRequest)

\* a text-generation request was issued
TextGenRequested == \E i \in DOMAIN requests : requests[i].url = "openai"

\* nothing was composed, generated or published
NothingPosted ==
    /\ fallback = <<>>
    /\ text = <<>>
    /\ ~TextGenRequested
    /\ PublishRequests = <<>>

\* some single subject matches a credential pattern
SubjectHasSecret == \E i \in DOMAIN subjects : SECRET_PATTERNS_search(subjects[i])

\* every subject, lower-cased, starts with "merge"
AllSubjectsStartMerge ==
    \A i \in DOMAIN subjects : startswith(lower(subjects[i]), S_merge)

\* every changed file, lower-cased, ends in ".md" or starts with "docs/"
AllFilesMarkdownOrDocs ==
    \A i \in DOMAIN files :
        \/ endswith(lower(files[i]), S_dot_md)
        \/ startswith(lower(files[i]), S_docs_slash)

(***************************************************************************)
(* C1                                                                      *)
(***************************************************************************)
\* C1: the skip reason is that of the first matching rule in the order
\* secret, doc-only, merge-only, dependency-only, no-files; a secret-like
\* subject skips with the secret reason whatever the files are; the run goes
\* on to compose and publish only when none of the five rules matches.
C1_OrderedChain ==
    FilterDone =>
        LET r1 == SubjectHasSecret
            r2 == looks_doc_only(files)
            r3 == looks_merge_only(subjects)
            r4 == looks_dependency_only(files)
            r5 == files = <<>>
        IN  /\ (skip = "secret") <=> r1
            /\ (skip = "doc_only") <=> (~r1 /\ r2)
            /\ (skip = "merge_only") <=> (~r1 /\ ~r2 /\ r3)
            /\ (skip = "dependency_only") <=> (~r1 /\ ~r2 /\ ~r3 /\ r4)
            /\ (skip = "no_files") <=> (~r1 /\ ~r2 /\ ~r3 /\ ~r4 /\ r5)
            /\ (skip = "none") <=> ~(r1 \/ r2 \/ r3 \/ r4 \/ r5)
            /\ skip # "none" => (pc = "done" /\ exit_code = 0 /\ NothingPosted)
            /\ skip = "none" => fallback # <<>>

\* a push with a secret-like subject and doc-only files was skipped as secret
C1_Witness ==
    /\ FilterDone
    /\ skip = "secret"
    /\ files # <<>>
    /\ looks_doc_only(files)
    /\ Len(subjects) > 1

(***************************************************************************)
(* C2                                                                      *)
(***************************************************************************)
\* C2 as stated: every subject list, of any length, whose subjects all start
\* with "merge" is skipped, whatever the files are.
C2_AnyLengthMergeSkips ==
    (FilterDone /\ AllSubjectsStartMerge) => skip # "none"

\* C2 amended: every NON-EMPTY subject list whose subjects all start with
\* "merge" (lower-cased) is skipped, whatever the files are: the run exits 0
\* and nothing is composed or published.
C2_NonEmptyMergeSkips ==
    (FilterDone /\ subjects # <<>> /\ AllSubjectsStartMerge) =>
        (skip # "none" /\ pc = "done" /\ exit_code = 0 /\ NothingPosted)

\* two merge commits touching a source file were skipped by the merge rule
C2_Witness ==
    /\ FilterDone
    /\ Len(subjects) > 1
    /\ AllSubjectsStartMerge
    /\ \E i \in DOMAIN files : files[i] = FileCode
    /\ skip = "merge_only"

(***************************************************************************)
(* C3                                                                      *)
(***************************************************************************)
\* C3: a file list whose entries all end in ".md" or start with "docs/"
\* (lower-cased), the empty list included, is skipped whatever the subjects
\* are; such a push is never composed or published.
C3_DocFilesSkip ==
    (FilterDone /\ AllFilesMarkdownOrDocs) =>
        (skip # "none" /\ pc = "done" /\ exit_code = 0 /\ NothingPosted)

\* an ordinary commit touching one .MD file and one file under Docs/ was
\* skipped by the doc-only rule
C3_Witness ==
    /\ FilterDone
    /\ \E i \in DOMAIN files : files[i] = FileReadme
    /\ \E i \in DOMAIN files : files[i] = FileDocs
    /\ subjects = <<SubjFix>>
    /\ skip = "doc_only"

(***************************************************************************)
(* C4                                                                      *)
(***************************************************************************)
\* C4: in auto mode the first publish request goes to /rest/posts; after a
\* non-2xx answer exactly one request to /v2/ugcPosts follows and the exit
\* code is decided by that second answer alone (0 on success, 1 on failure);
\* after a 2xx answer of the first, /v2/ugcPosts is never contacted.
C4_AutoFallsBackOnce ==
    (mode = S_auto /\ PublishRequests # <<>>) =>
        LET reqs == PublishRequests
        IN  /\ reqs[1].url = "rest_posts"
            /\ Len(reqs) <= 2
            /\ reqs[1].answer = "ok" => (Len(reqs) = 1 /\ pc = "done" /\ exit_code = 0)
            /\ reqs[1].answer = "http_error" =>
                 /\ pc \in {"publish_fallback", "done"}
                 /\ (pc = "publish_fallback") <=> (Len(reqs) = 1)
                 /\ pc = "done" =>
                      /\ Len(reqs) = 2
                      /\ reqs[2].url = "ugcPosts"
                      /\ (exit_code = 0) <=> (reqs[2].answer = "ok")
                      /\ (exit_code = 1) <=> (reqs[2].answer # "ok")

\* auto mode: /rest/posts answered non-2xx, /v2/ugcPosts succeeded, exit 0
C4_Witness ==
    /\ mode = S_auto
    /\ pc = "done"
    /\ Len(PublishRequests) = 2
    /\ PublishRequests[1] = [url |-> "rest_posts", answer |-> "http_error"]
    /\ PublishRequests[2] = [url |-> "ugcPosts", answer |-> "ok"]
    /\ exit_code = 0

(***************************************************************************)
(* C5                                                                      *)
(***************************************************************************)
\* C5: with LINKEDIN_POST_MODE absent or empty the Publisher runs in auto
\* mode: the first publish request goes to /rest/posts, and /v2/ugcPosts is
\* contacted only after a non-2xx answer of /rest/posts.
C5_UnsetModeIsAuto ==
    (env.post_mode = <<>> /\ PublishRequests # <<>>) =>
        /\ PublishRequests[1].url = "rest_posts"
        /\ \A i \in DOMAIN PublishRequests :
             PublishRequests[i].url = "ugcPosts" =>
                 /\ i > 1
                 /\ PublishRequests[i - 1] = [url |-> "rest_posts", answer |-> "http_error"]

(***************************************************************************)
(* C6                                                                      *)
(***************************************************************************)
\* main has gone past the call of summarize_with_openai
SummarizeActed == FilterDone /\ skip = "none" /\ pc # "summarize"

\* a text-generation request was issued and was not answered 2xx
TextGenFailed ==
    \E i \in DOMAIN requests :
        requests[i].url = "openai" /\ requests[i].answer # "ok"

\* C6: when the text-generation call fails, is unavailable (no credential)
\* or returns nothing, the run continues: the fallback text is the post text
\* and the publish step is reached (unless DRY_RUN ends the run first).
C6_TextGenFailureRecovered ==
    (SummarizeActed /\ (TextGenFailed \/ api_key = <<>> \/ ai = <<>>)) =>
        /\ text = fallback
        /\ raised \notin {"HTTPError", "URLError"} \/ PublishRequests # <<>>
        /\ pc = "done" => (dry_run \/ PublishRequests # <<>>)

(***************************************************************************)
(* C7                                                                      *)
(***************************************************************************)
\* C7: in mode posts or ugc, a non-2xx answer of the selected endpoint ends
\* the run with exit code 1; that request is the only publish request and
\* the other endpoint is never contacted.
C7_SingleModeNoRetry ==
    (mode \in {S_posts, S_ugc} /\ PublishRequests # <<>>) =>
        /\ Len(PublishRequests) = 1
        /\ PublishRequests[1].url = (IF mode = S_posts THEN "rest_posts" ELSE "ugcPosts")
        /\ pc = "done"
        /\ PublishRequests[1].answer = "http_error" => (exit_code = 1 /\ raised = "none")

\* mode posts: /rest/posts answered non-2xx, the run returned 1
C7_Witness ==
    /\ mode = S_posts
    /\ pc = "done"
    /\ PublishRequests = <<[url |-> "rest_posts", answer |-> "http_error"]>>
    /\ exit_code = 1

(***************************************************************************)
(* C8                                                                      *)
(***************************************************************************)
\* the required credential or author is missing, or the credential was
\* turned down by the /v2/userinfo check (read as a credential failure)
CredentialFailure ==
    \/ author = <<>>
    \/ token = <<>>
    \/ \E i \in DOMAIN requests :
         requests[i].url = "userinfo" /\ requests[i].answer # "ok"

\* --repo-path is no git checkout
InvalidRepository == raised = "CalledProcessError"

\* the last publish request failed
UnrecoveredPublishFailure ==
    /\ PublishRequests # <<>>
    /\ PublishRequests[Len(PublishRequests)].answer # "ok"

\* C8: a push matching any skip rule ends with exit code 0 and no
\* text-generation and no publish request; the exit code is 1 only for a
\* credential/author failure, an invalid repository or an unrecovered
\* publish failure.
C8_ExitCodes ==
    pc = "done" =>
        /\ (FilterDone /\ skip # "none") =>
             (exit_code = 0 /\ ~TextGenRequested /\ PublishRequests = <<>>)
        /\ exit_code = 1 =>
             (CredentialFailure \/ InvalidRepository \/ UnrecoveredPublishFailure)

(***************************************************************************)
(* C9                                                                      *)
(***************************************************************************)
compare_link == S_github \o repo \o S_compare \o before \o S_dots \o after
commit_link == S_github \o repo \o S_commit \o after
repository_link == S_github \o repo

\* a link has been built
LinkBuilt == FilterDone /\ skip = "none"

\* C9: with an all-zero before and a well-formed after present in the
\* repository, collect_push_summary takes the single-commit path (one
\* subject, no range query) and the link is the commit link of after; the
\* link is a compare link exactly when both SHAs are given and before is not
\* all-zero, and the bare repository link exactly when after is absent.
C9_PathAndLink ==
    /\ (path # "none" /\ before = ShaZeros /\ Len(after) = ShaLen
          /\ ToSet(after) \subseteq HexLowerSet /\ after \in PresentCommits) =>
         /\ path = "commit"
         /\ Len(subjects) = 1
         /\ LinkBuilt => link_url = commit_link
    /\ LinkBuilt =>
         /\ (link_url = compare_link) <=>
              (before # <<>> /\ after # <<>> /\ ToSet(before) # {"0"})
         /\ (link_url = repository_link) <=> (after = <<>>)
         /\ link_url \in {compare_link, commit_link, repository_link}

\* first push of a branch: before all-zero, after present; the commit link
\* was built from the single-commit summary
C9_Witness ==
    /\ LinkBuilt
    /\ before = ShaZeros
    /\ after = ShaB
    /\ path = "commit"
    /\ link_url = commit_link

(***************************************************************************)
(* C10                                                                     *)
(***************************************************************************)
\* indices of the subjects that are non-empty after trimming
NonEmptyIdx == {i \in DOMAIN subjects : strip(subjects[i]) # <<>>}

\* the k-th of them in the original order
KthNonEmpty(k) ==
    CHOOSE i \in NonEmptyIdx : Cardinality({j \in NonEmptyIdx : j < i}) = k - 1

Min(a, b) == IF a < b THEN a ELSE b

\* the lines of the composed text that are bullets
BulletLines ==
    LET ls == splitlines(fallback)
    IN  {i \in DOMAIN ls : startswith(ls[i], S_bullet)}

\* a bullet line for each of the first three non-empty subjects
SubjectBullets ==
    [k \in 1..Min(TopSubjects, Cardinality(NonEmptyIdx)) |->
        S_bullet \o strip(subjects[KthNonEmpty(k)])]

\* header, blank, the given bullets, [blank, shortstat,] blank, link
Layout(bullets) ==
    <<S_header \o repo \o <<":">>, <<>>>>
    \o bullets
    \o (IF shortstat # <<>> THEN <<<<>>, shortstat>> ELSE <<>>)
    \o <<<<>>, link_url>>

\* C10 as stated: the text is header, blank, one bullet per each of the
\* first three non-empty subjects and no other bullet, [blank, shortstat,]
\* blank, link; the number of bullet lines is min(3, non-empty subjects).
C10_BulletsAreSubjects ==
    pc = "built" =>
        /\ splitlines(fallback) = Layout(SubjectBullets)
        /\ Cardinality(BulletLines) = Min(TopSubjects, Cardinality(NonEmptyIdx))

\* C10 amended: as stated when some subject is non-empty after trimming;
\* when none is, the text carries the single placeholder bullet "Updates"
\* in place of the subject bullets, so the number of bullet lines is
\* min(3, non-empty subjects) or 1 when there is no non-empty subject.
C10_BulletsOrPlaceholder ==
    pc = "built" =>
        IF NonEmptyIdx # {}
        THEN /\ splitlines(fallback) = Layout(SubjectBullets)
             /\ Cardinality(BulletLines) = Min(TopSubjects, Cardinality(NonEmptyIdx))
        ELSE /\ splitlines(fallback) = Layout(<<S_bullet \o S_updates>>)
             /\ Cardinality(BulletLines) = 1

\* four subjects of which the second is blank: bullets for the first, third
\* and fourth, with a shortstat
C10_Witness ==
    /\ pc = "built"
    /\ Len(subjects) = MaxBuildSubjects
    /\ NonEmptyIdx = DOMAIN subjects \ {2}
    /\ shortstat # <<>>
    /\ Cardinality(BulletLines) = TopSubjects

====
